---- MODULE Spec2Model ----
(***************************************************************************)
(* dtrader-crypto 2.0: the typed event bus (EventBus over Node's           *)
(* EventEmitter) and the shutdown coordination of DTraderCrypto and        *)
(* TerminalManager.                                                        *)
(*                                                                         *)
(* Node runs every callback to completion on one thread, so one action of  *)
(* the model is one top-level callback (a start() call, a signal, a key,   *)
(* a resize, a timer) together with everything it calls synchronously.     *)
(* A callback is computed by operators over a record of the whole program  *)
(* state; the action then commits the record to the variables.             *)
(*                                                                         *)
(* The presentation surface (terminal-kit) and the loggers are opaque      *)
(* sinks: their calls are recorded in the trace of the step and do not     *)
(* throw, but for the rendering in start(), whose failure start() catches  *)
(* and publishes as app:error.                                             *)
(***************************************************************************)
EXTENDS Integers, Sequences, FiniteSets, TLC

VARIABLES
    listeners,       \* EventEmitter._events restricted to the AppEvents kinds
    hooks,           \* the bus's own 'error'/'newListener'/'removeListener' listeners are installed
    maxListeners,    \* the ceiling given to setMaxListeners
    warned,          \* per kind: the listener array carries the 'warned' mark
    sessionInfo,     \* TerminalManager.sessionInfo
    enableLogging,   \* EventBus.enableLogging
    development,     \* the environment tag of config and sessionInfo is 'development'
    isRunning,       \* DTraderCrypto.isRunning
    startTime,       \* DTraderCrypto.startTime is set
    isInitialized,   \* TerminalManager.isInitialized
    isInputGrabbed,  \* TerminalManager.isInputGrabbed
    keyHandlers,     \* number of handleKeyPress callbacks registered on term 'key'
    timers,          \* pending setTimeout(process.exit) callbacks
    exited,          \* process.exit has run
    exitCode,        \* status passed to process.exit (-1 while alive)
    effects,         \* history of the shutdown-related calls of the whole run
    op,              \* the top-level callback of the last step and the registrations it found
    trace,           \* calls made during the last step, in order
    ret,             \* value returned by the last top-level emitTyped
    escaped          \* the last top-level callback let an exception escape

vars == <<listeners, hooks, maxListeners, warned, sessionInfo, enableLogging, development, isRunning, startTime, isInitialized,
          isInputGrabbed, keyHandlers, timers, exited, exitCode, effects, op,
          trace, ret, escaped>>

----------------------------------------------------------------------------
(* Bounds *)

MaxRegs == 2        \* registrations of test listeners alive at one time on a bare bus
MaxSubs == 2        \* registrations of other subscribers on the application's bus
MaxEffects == 14    \* length of the shutdown history
MaxDepth == 1       \* nesting of emitTyped calls made from inside a listener

----------------------------------------------------------------------------
(* Event kinds and listeners *)

Kinds == {"app:start", "app:stop", "app:error", "terminal:exit",
          "terminal:key", "terminal:resize"}

KindSeq == <<"app:start", "app:stop", "app:error", "terminal:exit",
             "terminal:key", "terminal:resize">>

SubKinds == {"app:stop", "terminal:exit", "terminal:resize"}   \* kinds other components subscribe to
BusKinds == {"app:stop", "terminal:resize"}                    \* kinds exercised on a bare bus
Sizes == {24, 80}
KeyNames == {"CTRL_X", "CTRL_C", "a"}

ArgsOf(k) ==
    CASE k = "terminal:resize" -> {<<w, h>> : w \in Sizes, h \in Sizes}
      [] k = "terminal:key"    -> {<<"a", "data">>}
      [] k = "app:error"       -> {<<"Error">>}
      [] OTHER                 -> {<<>>}

\* callbacks of other subscribers: two that return, one that throws, one that
\* publishes the kind it is called for again
DefaultMaxListeners == 50    \* EVENT_BUS_MAX_LISTENERS when the environment does not set it
\* a bare bus is constructed with the defaults of the module's bus in
\* development, or with a ceiling of one and no logging
BusConfigs == {<<DefaultMaxListeners, TRUE>>, <<1, FALSE>>}

SessionIds == {"00C0FFEE", "DEADBEEF"}  \* outcomes of randomBytes(4) as upper-case hex

TestListeners == {"okA", "okB", "thrower", "reemit"}
Throwing == {"thrower"}
Reentrant == {"reemit"}
\* listeners of a client that change the registrations of their own kind
FanListeners == {"okA", "adder", "remover", "thrower"}
FanKinds == {"terminal:resize"}
Subscribing == {"adder"}
Unsubscribing == {"remover"}

Ev(o, id, k, args, n) ==
    [op |-> o, id |-> id, kind |-> k, args |-> args, n |-> n, rid |-> 0]
NoOp == [name |-> "init", kind |-> "-", id |-> "-", args |-> <<>>, pre |-> <<>>]

Note(s, e) == [s EXCEPT !.trace = Append(@, e)]
Effect(s, e) == [s EXCEPT !.effects = Append(@, e)]

RemoveAt(seq, i) == SubSeq(seq, 1, i - 1) \o SubSeq(seq, i + 1, Len(seq))

Count(seq, x) == Cardinality({i \in 1..Len(seq) : seq[i] = x})

----------------------------------------------------------------------------
(* EventEmitter and EventBus *)

OwnKinds == {"error", "newListener", "removeListener"}   \* subscribed to by the bus itself

\* EventEmitter.listenerCount
ListenerCount(s, k) ==
    IF k \in OwnKinds THEN (IF s.hooks THEN 1 ELSE 0) ELSE Len(s.listeners[k])

\* mutant: a kind that has lost its registrations keeps its key
EventNames_KeepsEmptied(s) == (IF s.hooks THEN OwnKinds ELSE {}) \cup Kinds

\* EventEmitter.eventNames: the keys of the listener table
EventNames(s) ==
    (IF s.hooks THEN OwnKinds ELSE {}) \cup {k \in Kinds : Len(s.listeners[k]) > 0}

HasListeners(s, k) == ListenerCount(s, k) > 0

\* the record getListenersInfo builds, logs and returns
ListenersInfo(s) == [e \in EventNames(s) |-> ListenerCount(s, e)]

GetListenersInfo(s) ==
    Note(s, Ev("logEvent", "-", "eventbus:stats", <<ListenersInfo(s)>>, 0))

\* the wrapper installed by setupEventLogging around emit
LogEmit(s, name, n) ==
    IF s.enableLogging THEN Note(s, Ev("logEvent", "-", name, <<>>, n)) ELSE s

\* mutant: the report does not depend on the hook being installed
NewListenerHook_Unconditional(s, k) ==
    Note(LogEmit(s, "newListener", 1),
         Ev("logListenerAdd", "-", k, <<>>, ListenerCount(s, k) + 1))

\* the 'newListener' hook of setupErrorHandling, run before the listener is added
NewListenerHook(s, k) ==
    IF s.hooks
    THEN Note(LogEmit(s, "newListener", 1),
              Ev("logListenerAdd", "-", k, <<>>, ListenerCount(s, k) + 1))
    ELSE s

\* the 'removeListener' hook of setupErrorHandling, run after the listener is removed
RemoveListenerHook(s, k) ==
    IF s.hooks
    THEN Note(LogEmit(s, "removeListener", 1),
              Ev("logListenerRemove", "-", k, <<>>, ListenerCount(s, k) - 1))
    ELSE s

\* a once() wrapper needs an identity of its own: the least number no live
\* wrapper and no wrapper fired in this step carries
FreshRid(s) ==
    LET used == s.fired \cup
                UNION {{s.listeners[k][i].rid : i \in 1..Len(s.listeners[k])} : k \in Kinds}
    IN CHOOSE r \in 1..(Cardinality(used) + 1) :
           r \notin used /\ \A q \in 1..(r - 1) : q \in used

\* the check of _addListener against the ceiling: made when the kind already
\* had a listener, it warns once per listener array and refuses nothing
CheckCeiling(s, k) ==
    IF /\ Len(s.listeners[k]) >= 2
       /\ s.maxListeners > 0
       /\ Len(s.listeners[k]) > s.maxListeners
       /\ ~s.warned[k]
    THEN [Note(s, Ev("emitWarning", "-", k, <<>>, Len(s.listeners[k])))
             EXCEPT !.warned[k] = TRUE]
    ELSE s

\* mutant: a registration above the ceiling is refused
AddListener_RejectsAboveCeiling(s, k, id, once) ==
    LET s1 == NewListenerHook(s, k)
        reg == [id |-> id, once |-> once, rid |-> IF once THEN FreshRid(s) ELSE 0]
    IN IF s.maxListeners > 0 /\ Len(s.listeners[k]) >= s.maxListeners
       THEN Note(s1, Ev("emitWarning", "-", k, <<>>, Len(s.listeners[k])))
       ELSE [s1 EXCEPT !.listeners[k] = Append(@, reg)]

AddListener(s, k, id, once) ==
    LET s1 == NewListenerHook(s, k)
        reg == [id |-> id, once |-> once, rid |-> IF once THEN FreshRid(s) ELSE 0]
    IN CheckCeiling([s1 EXCEPT !.listeners[k] = Append(@, reg)], k)

OnTyped(s, k, id) == AddListener(s, k, id, FALSE)

OnceTyped(s, k, id) == AddListener(s, k, id, TRUE)

\* the entry at position i leaves the array of k; an array left with one entry
\* or none is replaced, and its 'warned' mark goes with it
Splice(s, k, i) ==
    [s EXCEPT !.listeners[k] = RemoveAt(@, i),
              !.warned[k] = @ /\ Len(s.listeners[k]) > 2]

\* mutant: the last registration is taken, whatever its listener
LastMatch_AlwaysLast(list, id) == Len(list)

\* mutant: the scan runs from the front
LastMatch_First(list, id) ==
    LET m == {i \in 1..Len(list) : list[i].id = id} IN
    IF m = {} THEN 0 ELSE CHOOSE i \in m : \A j \in m : i <= j

\* removeListener scans from the end and removes the first match
LastMatch(list, id) ==
    LET m == {i \in 1..Len(list) : list[i].id = id} IN
    IF m = {} THEN 0 ELSE CHOOSE i \in m : \A j \in m : j <= i

OffTyped(s, k, id) ==
    LET i == LastMatch(s.listeners[k], id) IN
    IF i = 0 THEN s
    ELSE RemoveListenerHook(Splice(s, k, i), k)

\* a once() wrapper removes itself, not the listener it wraps
RemoveWrapper(s, k, rid) ==
    LET m == {i \in 1..Len(s.listeners[k]) : s.listeners[k][i].rid = rid} IN
    IF m = {} THEN s
    ELSE RemoveListenerHook(Splice(s, k, CHOOSE i \in m : TRUE), k)

\* removeAllListeners() with the 'removeListener' hook installed: every key but
\* 'removeListener' is emptied from its last listener to its first, each removal
\* reported by the hook; without the hook the table is simply replaced
RECURSIVE RemoveAllOf_KeepsFirst(_, _)
RECURSIVE RemoveAllOf(_, _)

\* mutant: the loop stops one entry early
RemoveAllOf_KeepsFirst(s, k) ==
    IF Len(s.listeners[k]) <= 1 THEN s
    ELSE RemoveAllOf_KeepsFirst(
             RemoveListenerHook(Splice(s, k, Len(s.listeners[k])), k), k)

RemoveAllOf(s, k) ==
    IF Len(s.listeners[k]) = 0 THEN s
    ELSE RemoveAllOf(RemoveListenerHook(Splice(s, k, Len(s.listeners[k])), k), k)

RECURSIVE RemoveAllKinds_FromSecond(_, _)
RECURSIVE RemoveAllKinds(_, _)

\* mutant: the first key of the table is passed over
RemoveAllKinds_FromSecond(s, i) ==
    IF i >= Len(KindSeq) THEN s
    ELSE RemoveAllKinds_FromSecond(RemoveAllOf(s, KindSeq[i + 1]), i + 1)

RemoveAllKinds(s, i) ==
    IF i > Len(KindSeq) THEN s
    ELSE RemoveAllKinds(RemoveAllOf(s, KindSeq[i]), i + 1)

\* mutant: only the bus's own hooks are removed
RemoveAllListeners_HooksOnly(s) == [s EXCEPT !.hooks = FALSE]

RemoveAllListeners(s) ==
    IF s.hooks
    THEN LET s1 == Note(LogEmit(s, "removeListener", 1),
                        Ev("logListenerRemove", "-", "error", <<>>, -1))
             s2 == Note(LogEmit(s1, "removeListener", 1),
                        Ev("logListenerRemove", "-", "newListener", <<>>, -1))
             s3 == RemoveAllKinds(s2, 1)
         IN [s3 EXCEPT !.hooks = FALSE]
    ELSE [s EXCEPT !.listeners = [k \in Kinds |-> <<>>],
                   !.warned = [k \in Kinds |-> FALSE]]

\* mutant: the registrations are left in place
Cleanup_LogsOnly(s) == Note(s, Ev("logEvent", "-", "eventbus:cleanup", <<>>, 0))

Cleanup(s) ==
    RemoveAllListeners(Note(s, Ev("logEvent", "-", "eventbus:cleanup", <<>>, 0)))

----------------------------------------------------------------------------
(* Presentation surface and process *)

Render(s, what) == Note(s, Ev("render", what, "-", <<>>, 0))

ShowInfo(s) == Render(s, "info")

ShowError(s) == Render(s, "error")

ShowWelcomeScreen(s) == Render(s, "welcome")

ShowShutdownMessage(s) == Render(s, "shutdown")

\* process.exit(code): nothing of the running callback executes after it
ProcessExit(s, code) ==
    [Effect(Note(s, Ev("exit", "-", "-", <<>>, code)), "exit")
        EXCEPT !.exited = TRUE, !.exitCode = code]

GrabInputCfg == TRUE    \* config.grabInput as DTraderCrypto passes it

\* mutant: the isInputGrabbed test is missing
StartKeyListener_NoGuard(s) ==
    IF GrabInputCfg
    THEN [Effect(Note(s, Ev("grabInput", "-", "-", <<>>, 1)), "grab")
             EXCEPT !.isInputGrabbed = TRUE, !.keyHandlers = @ + 1]
    ELSE s

StartKeyListener(s) ==
    IF GrabInputCfg /\ ~s.isInputGrabbed
    THEN [Effect(Note(s, Ev("grabInput", "-", "-", <<>>, 1)), "grab")
             EXCEPT !.isInputGrabbed = TRUE, !.keyHandlers = @ + 1]
    ELSE s

\* mutant: the isInputGrabbed test is missing
StopKeyListener_NoGuard(s) ==
    [Effect(Note(s, Ev("grabInput", "-", "-", <<>>, 0)), "release")
        EXCEPT !.isInputGrabbed = FALSE]

StopKeyListener(s) ==
    IF s.isInputGrabbed
    THEN [Effect(Note(s, Ev("grabInput", "-", "-", <<>>, 0)), "release")
             EXCEPT !.isInputGrabbed = FALSE]
    ELSE s

\* mutant: the exit timer is not set
TMGracefulShutdown_NoTimer(s) ==
    IF ~s.isInitialized
    THEN ProcessExit(s, 0)
    ELSE Render(StopKeyListener(ShowShutdownMessage(Effect(s, "tm:shutdown"))),
                "farewell")

TMGracefulShutdown(s) ==
    IF ~s.isInitialized
    THEN ProcessExit(s, 0)
    ELSE LET s1 == StopKeyListener(ShowShutdownMessage(Effect(s, "tm:shutdown")))
             s2 == Render(s1, "farewell")
         IN [Effect(Note(s2, Ev("setTimeout", "-", "-", <<>>, 80)), "schedule")
                EXCEPT !.timers = @ + 1]

\* mutant: isInitialized is not set
TMHandleAppStart_NoInit(s) == StartKeyListener(ShowWelcomeScreen(s))

\* mutant: the start of the application is written into the session descriptor
TMHandleAppStart_StampsSession(s) ==
    [StartKeyListener(ShowWelcomeScreen(s))
        EXCEPT !.isInitialized = TRUE, !.sessionInfo.startTime = "started"]

TMHandleAppStart(s) ==
    [StartKeyListener(ShowWelcomeScreen(s)) EXCEPT !.isInitialized = TRUE]

TMHandleAppStop(s) == StopKeyListener(ShowShutdownMessage(s))

TMHandleExit(s) == TMGracefulShutdown(s)

----------------------------------------------------------------------------
(* Dispatch *)

RECURSIVE Invoke(_, _, _, _)
RECURSIVE RunListeners(_, _, _, _, _)
RECURSIVE AppGracefulShutdown(_)
RECURSIVE EmitTyped(_, _, _)

\* mutant: an emit without listeners throws, as EventEmitter does for 'error'
OriginalEmit_ThrowsWhenEmpty(s, k, args) ==
    IF Len(s.listeners[k]) = 0
    THEN [s EXCEPT !.exc = TRUE]
    ELSE LET r == RunListeners(s, s.listeners[k], 1, k, args)
         IN [r EXCEPT !.ret = TRUE]

\* EventEmitter.emit without the logging wrapper: the listener array is cloned,
\* the clones are called in order, and an exception of a listener ends the call
OriginalEmit(s, k, args) ==
    IF Len(s.listeners[k]) = 0
    THEN [s EXCEPT !.ret = FALSE]
    ELSE LET r == RunListeners(s, s.listeners[k], 1, k, args)
         IN [r EXCEPT !.ret = TRUE]

\* mutant: the logging wrapper does not return the result of the emit it wraps
Emit_LoggingDropsResult(s, k, args) ==
    IF s.enableLogging
    THEN [OriginalEmit(LogEmit(s, k, ListenerCount(s, k)), k, args) EXCEPT !.ret = FALSE]
    ELSE OriginalEmit(s, k, args)

Emit(s, k, args) == OriginalEmit(LogEmit(s, k, ListenerCount(s, k)), k, args)

\* mutant: the try/catch is missing
EmitTyped_NoCatch(s, k, args) == Emit(s, k, args)

EmitTyped(s, k, args) ==
    LET r == Emit(s, k, args) IN
    IF r.exited THEN r
    ELSE IF r.exc
    THEN [Note(r, Ev("logError", "-", k, <<>>, 0)) EXCEPT !.exc = FALSE, !.ret = FALSE]
    ELSE r

\* mutant: the cloned array is walked from its end
RECURSIVE RunListeners_Reversed(_, _, _, _, _)
RunListeners_Reversed(s, snapshot, i, k, args) ==
    IF i > Len(snapshot) \/ s.exc \/ s.exited THEN s
    ELSE RunListeners_Reversed(Invoke(s, snapshot[Len(snapshot) + 1 - i], k, args),
                               snapshot, i + 1, k, args)

RunListeners(s, snapshot, i, k, args) ==
    IF i > Len(snapshot) \/ s.exc \/ s.exited THEN s
    ELSE RunListeners(Invoke(s, snapshot[i], k, args), snapshot, i + 1, k, args)

AppHandleAppStart(s) ==
    ShowInfo([s EXCEPT !.startTime = TRUE, !.isRunning = TRUE])

AppHandleAppStop(s) == ShowInfo([s EXCEPT !.isRunning = FALSE])

\* mutant: an application error is escalated to a shutdown
AppHandleAppError_Shutdown(s) == AppGracefulShutdown(ShowError(s))

AppHandleAppError(s) == ShowError(s)

AppHandleExit(s) == AppGracefulShutdown(s)

AppHandleTerminalKey(s) == s

AppHandleTerminalResize(s) == IF s.development THEN ShowInfo(s) ELSE s

\* mutant: the isRunning test is missing
AppGracefulShutdown_NoGuard(s) ==
    LET s1 == Effect([s EXCEPT !.isRunning = FALSE], "shutdown:begin")
        s2 == EmitTyped(Effect(s1, "app:stop"), "app:stop", <<>>)
        s3 == IF s2.exited \/ s2.exc THEN s2 ELSE TMGracefulShutdown(s2)
        s4 == IF s3.exited \/ s3.exc THEN s3
              ELSE Effect(Effect(Cleanup(s3), "reset"), "shutdown:end")
    IN s4

AppGracefulShutdown(s) ==
    IF ~s.isRunning THEN s
    ELSE LET s1 == Effect([s EXCEPT !.isRunning = FALSE], "shutdown:begin")
             s2 == EmitTyped(Effect(s1, "app:stop"), "app:stop", <<>>)
             s3 == IF s2.exited \/ s2.exc THEN s2 ELSE TMGracefulShutdown(s2)
             s4 == IF s3.exited \/ s3.exc THEN s3
                   ELSE Effect(Effect(Cleanup(s3), "reset"), "shutdown:end")
         IN s4

\* a listener that calls emitTyped for its own kind, up to the nesting bound
Reemit(s, k, args) ==
    IF s.depth >= MaxDepth THEN s
    ELSE [EmitTyped([s EXCEPT !.depth = @ + 1], k, args) EXCEPT !.depth = s.depth]

\* a listener that calls onTyped for its own kind with the listener okA, as
\* long as the kind has room within the bound
SubscribeInside(s, k) ==
    IF Len(s.listeners[k]) > MaxRegs + 1 THEN s ELSE OnTyped(s, k, "okA")

\* a listener that calls offTyped for its own kind with the listener okA
UnsubscribeInside(s, k) == OffTyped(s, k, "okA")

\* the body of a listener; the trace entry records the nesting depth of the
\* emit that called it and the once() wrapper it was called through
CallBody(s, id, k, args) ==
    CASE id = "TM.handleAppStart"        -> TMHandleAppStart(s)
      [] id = "TM.handleAppStop"         -> TMHandleAppStop(s)
      [] id = "TM.handleExit"            -> TMHandleExit(s)
      [] id = "App.handleAppStart"       -> AppHandleAppStart(s)
      [] id = "App.handleAppStop"        -> AppHandleAppStop(s)
      [] id = "App.handleAppError"       -> AppHandleAppError(s)
      [] id = "App.handleExit"           -> AppHandleExit(s)
      [] id = "App.handleTerminalKey"    -> AppHandleTerminalKey(s)
      [] id = "App.handleTerminalResize" -> AppHandleTerminalResize(s)
      [] id \in Throwing                 -> [s EXCEPT !.exc = TRUE]
      [] id \in Reentrant                -> Reemit(s, k, args)
      [] id \in Subscribing              -> SubscribeInside(s, k)
      [] id \in Unsubscribing            -> UnsubscribeInside(s, k)
      [] OTHER                           -> s

Call(s, reg, k, args) ==
    CallBody(Note(s, [op |-> "call", id |-> reg.id, kind |-> k, args |-> args,
                      n |-> s.depth, rid |-> reg.rid]),
             reg.id, k, args)

\* mutant: the wrapper of once() removes itself after the listener has returned
Invoke_RemovesAfterCall(s, reg, k, args) ==
    IF ~reg.once THEN Call(s, reg, k, args)
    ELSE RemoveWrapper(Call(s, reg, k, args), k, reg.rid)

\* one entry of the cloned listener array: the listener itself, or the wrapper
\* of once(), which removes itself and calls the listener unless it has fired
Invoke(s, reg, k, args) ==
    IF ~reg.once THEN Call(s, reg, k, args)
    ELSE IF reg.rid \in s.fired THEN s
    ELSE Call([RemoveWrapper(s, k, reg.rid) EXCEPT !.fired = @ \cup {reg.rid}],
              reg, k, args)

----------------------------------------------------------------------------
(* The state as a record, and back *)

Cur ==
    [listeners |-> listeners, hooks |-> hooks, maxListeners |-> maxListeners,
     warned |-> warned, sessionInfo |-> sessionInfo, enableLogging |-> enableLogging,
     development |-> development, isRunning |-> isRunning, startTime |-> startTime,
     isInitialized |-> isInitialized, isInputGrabbed |-> isInputGrabbed,
     keyHandlers |-> keyHandlers, timers |-> timers, exited |-> exited,
     exitCode |-> exitCode, effects |-> effects,
     trace |-> <<>>, ret |-> FALSE, exc |-> FALSE, fired |-> {}, depth |-> 0]

Commit(s, o) ==
    /\ listeners' = s.listeners
    /\ hooks' = s.hooks
    /\ maxListeners' = s.maxListeners
    /\ warned' = s.warned
    /\ sessionInfo' = s.sessionInfo
    /\ enableLogging' = s.enableLogging
    /\ development' = s.development
    /\ isRunning' = s.isRunning
    /\ startTime' = s.startTime
    /\ isInitialized' = s.isInitialized
    /\ isInputGrabbed' = s.isInputGrabbed
    /\ keyHandlers' = s.keyHandlers
    /\ timers' = s.timers
    /\ exited' = s.exited
    /\ exitCode' = s.exitCode
    /\ effects' = s.effects
    /\ trace' = s.trace
    /\ ret' = s.ret
    /\ escaped' = s.exc
    /\ op' = o

Op(name, k, id, args) ==
    [name |-> name, kind |-> k, id |-> id, args |-> args,
     pre |-> IF k \in Kinds THEN listeners[k] ELSE <<>>]

NoSession == [id |-> "-", startTime |-> "-", version |-> "-", environment |-> "-"]

\* new EventBus(maxListeners, enableLogging)
NewBus(max, logging, dev) ==
    [listeners |-> [k \in Kinds |-> <<>>], hooks |-> TRUE, maxListeners |-> max,
     warned |-> [k \in Kinds |-> FALSE], sessionInfo |-> NoSession,
     enableLogging |-> logging,
     development |-> dev, isRunning |-> FALSE, startTime |-> FALSE,
     isInitialized |-> FALSE, isInputGrabbed |-> FALSE, keyHandlers |-> 0,
     timers |-> 0, exited |-> FALSE, exitCode |-> -1, effects |-> <<>>,
     trace |-> <<>>, ret |-> FALSE, exc |-> FALSE, fired |-> {}, depth |-> 0]

\* TerminalManager.setupEventListeners
TMSetupEventListeners(s) ==
    OnTyped(OnTyped(OnTyped(s, "app:start", "TM.handleAppStart"),
                    "app:stop", "TM.handleAppStop"),
            "terminal:exit", "TM.handleExit")

\* DTraderCrypto.setupEventListeners
AppSetupEventListeners(s) ==
    OnTyped(OnTyped(OnTyped(OnTyped(OnTyped(OnTyped(s,
        "app:start", "App.handleAppStart"),
        "app:stop", "App.handleAppStop"),
        "app:error", "App.handleAppError"),
        "terminal:exit", "App.handleExit"),
        "terminal:key", "App.handleTerminalKey"),
        "terminal:resize", "App.handleTerminalResize")

\* new TerminalManager(eventBus, config)
NewTerminalManager(s, sid) ==
    TMSetupEventListeners(
        [s EXCEPT !.sessionInfo =
            [id |-> sid, startTime |-> "constructed", version |-> "2.0.0",
             environment |-> IF s.development THEN "development" ELSE "other"]])

GetSessionInfo(s) == s.sessionInfo

\* new DTraderCrypto(eventBus) on the bus of the module: the TerminalManager
\* subscribes first
NewApp(logging, dev, sid) ==
    AppSetupEventListeners(
        NewTerminalManager(NewBus(DefaultMaxListeners, logging, dev), sid))

InitFrom(s) ==
    /\ listeners = s.listeners
    /\ hooks = s.hooks
    /\ maxListeners = s.maxListeners
    /\ warned = s.warned
    /\ sessionInfo = s.sessionInfo
    /\ enableLogging = s.enableLogging
    /\ development = s.development
    /\ isRunning = s.isRunning
    /\ startTime = s.startTime
    /\ isInitialized = s.isInitialized
    /\ isInputGrabbed = s.isInputGrabbed
    /\ keyHandlers = s.keyHandlers
    /\ timers = s.timers
    /\ exited = s.exited
    /\ exitCode = s.exitCode
    /\ effects = s.effects
    /\ trace = <<>>
    /\ ret = FALSE
    /\ escaped = FALSE
    /\ op = NoOp

\* NODE_ENV is 'development' (logging, development), unset (no logging,
\* development by default) or anything else (no logging, not development)
Environments == {<<TRUE, TRUE>>, <<FALSE, TRUE>>, <<FALSE, FALSE>>}

Init == \E e \in Environments, sid \in SessionIds : InitFrom(NewApp(e[1], e[2], sid))

----------------------------------------------------------------------------
(* The application: one action per top-level callback *)

Alive == ~exited /\ Len(effects) < MaxEffects

TestRegs == {<<k, i>> \in Kinds \X (1..(MaxRegs + MaxSubs + 1)) :
                i <= Len(listeners[k]) /\ listeners[k][i].id \in TestListeners}

\* mutant: the try/catch of start() is missing
StartBody_NoCatch(s, fails) ==
    IF fails
    THEN [s EXCEPT !.exc = TRUE]
    ELSE EmitTyped(ShowInfo(s), "app:start", <<>>)

\* app.start(): when the rendering of the start message throws, the catch
\* block publishes app:error instead of app:start
StartBody(s, fails) ==
    IF fails
    THEN EmitTyped(s, "app:error", <<"Error">>)
    ELSE EmitTyped(ShowInfo(s), "app:start", <<>>)

Start ==
    /\ Alive
    /\ \E fails \in BOOLEAN :
          Commit(StartBody(Cur, fails),
                 IF fails THEN Op("start", "app:error", "-", <<"Error">>)
                          ELSE Op("start", "app:start", "-", <<>>))

\* mutant: every key is taken for an exit command
HandleKeyPress_AnyKeyExits(s, name) == EmitTyped(s, "terminal:exit", <<>>)

\* mutant: CTRL_C is passed on as an ordinary key
HandleKeyPress_CtrlCIsKey(s, name) ==
    IF name = "CTRL_X"
    THEN EmitTyped(s, "terminal:exit", <<>>)
    ELSE LET s1 == EmitTyped(s, "terminal:key", <<name, "data">>) IN
         IF s1.sessionInfo.environment = "development" THEN Render(s1, "key") ELSE s1

\* term 'key' -> TerminalManager.handleKeyPress
HandleKeyPress(s, name) ==
    IF name = "CTRL_X" \/ name = "CTRL_C"
    THEN EmitTyped(s, "terminal:exit", <<>>)
    ELSE LET s1 == EmitTyped(s, "terminal:key", <<name, "data">>) IN
         IF s1.sessionInfo.environment = "development" THEN Render(s1, "key") ELSE s1

KeyPress ==
    /\ Alive
    /\ isInputGrabbed /\ keyHandlers > 0
    /\ \E name \in KeyNames :
          Commit(HandleKeyPress(Cur, name),
                 Op(name, IF name = "a" THEN "terminal:key" ELSE "terminal:exit",
                    "-", <<>>))

\* process.on('SIGINT')
Sigint ==
    /\ Alive
    /\ Commit(EmitTyped(Cur, "terminal:exit", <<>>),
              Op("SIGINT", "terminal:exit", "-", <<>>))

\* process.on('SIGTERM')
Sigterm ==
    /\ Alive
    /\ Commit(EmitTyped(Cur, "terminal:exit", <<>>),
              Op("SIGTERM", "terminal:exit", "-", <<>>))

\* process.on('uncaughtException')
UncaughtException ==
    /\ Alive
    /\ Commit(AppGracefulShutdown(ShowError(Cur)),
              Op("uncaughtException", "-", "-", <<>>))

\* process.on('unhandledRejection')
UnhandledRejection ==
    /\ Alive
    /\ Commit(AppGracefulShutdown(ShowError(Cur)),
              Op("unhandledRejection", "-", "-", <<>>))

\* term 'resize'
Resize ==
    /\ Alive
    /\ \E a \in ArgsOf("terminal:resize") :
          Commit(EmitTyped(Cur, "terminal:resize", a),
                 Op("resize", "terminal:resize", "-", a))

\* the callback of setTimeout(..., 80)
TimerFire ==
    /\ Alive
    /\ timers > 0
    /\ Commit([ProcessExit(Cur, 0) EXCEPT !.timers = @ - 1],
              Op("timer", "-", "-", <<>>))

\* another component subscribes to the shared bus
Subscribe ==
    /\ Alive
    /\ Cardinality(TestRegs) < MaxSubs
    /\ \E k \in SubKinds, id \in TestListeners :
          Commit(OnTyped(Cur, k, id), Op("onTyped", k, id, <<>>))

Next ==
    \/ Start
    \/ KeyPress
    \/ Sigint
    \/ Sigterm
    \/ UncaughtException
    \/ UnhandledRejection
    \/ Resize
    \/ TimerFire
    \/ Subscribe

Spec == Init /\ [][Next]_vars

\* the event loop runs a timer that is due
LiveSpec == Spec /\ WF_vars(TimerFire)

----------------------------------------------------------------------------
(* The bus alone: new EventBus(...) driven by a client with test listeners *)

BusInit == \E c \in BusConfigs : InitFrom(NewBus(c[1], c[2], c[2]))

BusOn ==
    /\ ~exited
    /\ Cardinality(TestRegs) < MaxRegs
    /\ \E k \in BusKinds, id \in TestListeners :
          Commit(OnTyped(Cur, k, id), Op("onTyped", k, id, <<>>))

BusOnce ==
    /\ ~exited
    /\ Cardinality(TestRegs) < MaxRegs
    /\ \E k \in BusKinds, id \in TestListeners :
          Commit(OnceTyped(Cur, k, id), Op("onceTyped", k, id, <<>>))

BusOff ==
    /\ ~exited
    /\ \E k \in BusKinds, id \in TestListeners :
          Commit(OffTyped(Cur, k, id), Op("offTyped", k, id, <<>>))

BusEmit ==
    /\ ~exited
    /\ \E k \in BusKinds : \E a \in ArgsOf(k) :
          Commit(EmitTyped(Cur, k, a), Op("emitTyped", k, "-", a))

BusCleanup ==
    /\ ~exited
    /\ Commit(Cleanup(Cur), Op("cleanup", "-", "-", <<>>))

BusHasListeners ==
    /\ ~exited
    /\ \E k \in BusKinds :
          Commit([Cur EXCEPT !.ret = HasListeners(Cur, k)],
                 Op("hasListeners", k, "-", <<>>))

BusGetListenersInfo ==
    /\ ~exited
    /\ Commit(GetListenersInfo(Cur), Op("getListenersInfo", "-", "-", <<>>))

BusNext ==
    \/ BusOn
    \/ BusOnce
    \/ BusOff
    \/ BusEmit
    \/ BusCleanup
    \/ BusHasListeners
    \/ BusGetListenersInfo

BusSpec == BusInit /\ [][BusNext]_vars

----------------------------------------------------------------------------
(* The bus alone, driven by a client whose listeners subscribe, unsubscribe
   or throw while they are being called *)

FanRegs == {<<k, i>> \in FanKinds \X (1..(MaxRegs + 2)) : i <= Len(listeners[k])}

FanOn ==
    /\ ~exited
    /\ Cardinality(FanRegs) <= MaxRegs
    /\ \E k \in FanKinds, id \in FanListeners :
          Commit(OnTyped(Cur, k, id), Op("onTyped", k, id, <<>>))

FanOff ==
    /\ ~exited
    /\ \E k \in FanKinds, id \in FanListeners :
          Commit(OffTyped(Cur, k, id), Op("offTyped", k, id, <<>>))

FanEmit ==
    /\ ~exited
    /\ \E k \in FanKinds : \E a \in ArgsOf(k) :
          Commit(EmitTyped(Cur, k, a), Op("emitTyped", k, "-", a))

FanCleanup ==
    /\ ~exited
    /\ Commit(Cleanup(Cur), Op("cleanup", "-", "-", <<>>))

FanNext ==
    \/ FanOn
    \/ FanOff
    \/ FanEmit
    \/ FanCleanup

FanSpec == BusInit /\ [][FanNext]_vars

----------------------------------------------------------------------------
(* Properties *)

\* the calls made by the top-level emit of the step, without those of emits nested in it
IsCall(e) == e.op = "call" /\ e.n = 0
Calls == SelectSeq(trace, IsCall)

\* listeners that return and do nothing to the bus
Plain(list) == \A i \in 1..Len(list) : list[i].id \notin Throwing \cup Reentrant

Has(seq, x) == \E i \in 1..Len(seq) : seq[i] = x

\* every x of seq has a y somewhere before it
Before(seq, y, x) ==
    \A i \in 1..Len(seq) : seq[i] = x => \E j \in 1..(i - 1) : seq[j] = y

ExitTriggers == {"SIGINT", "SIGTERM", "CTRL_X", "CTRL_C"}
FatalFaults == {"uncaughtException", "unhandledRejection"}
ShutdownTriggers == ExitTriggers \cup FatalFaults

\* the last step did not run the shutdown sequence itself
ArrivedAfterShutdown ==
    /\ Has(effects, "shutdown:end")
    /\ \A i \in 1..Len(trace) : trace[i].kind # "eventbus:cleanup"

\* C1: after start(), once terminal:exit has been triggered a second time,
\* input capture has been released once, the bus has been reset once and
\* process.exit has been scheduled once.
C1_ExitTwiceEachActionOnce ==
    (op.kind = "terminal:exit" /\ ArrivedAfterShutdown)
        => /\ Count(effects, "release") = 1
           /\ Count(effects, "reset") = 1
           /\ Count(effects, "schedule") = 1

\* C2: whatever the sequence of start() calls and shutdown triggers, the
\* shutdown sequence of DTraderCrypto (it begins, publishes app:stop, resets
\* the bus, ends) runs at most once.
C2_ShutdownSequenceAtMostOnce ==
    /\ Count(effects, "shutdown:begin") <= 1
    /\ Count(effects, "app:stop") <= 1
    /\ Count(effects, "reset") <= 1
    /\ Count(effects, "shutdown:end") <= 1

C2_Witness ==
    /\ ArrivedAfterShutdown
    /\ op.name \in ShutdownTriggers \cup {"start"}
    /\ Count(effects, "shutdown:begin") = 1

\* C3: a shutdown trigger that arrives after the shutdown sequence has begun
\* lets no exception escape and changes neither the lifecycle state, nor the
\* input-capture flag, nor the registrations, nor the pending exit timers, nor
\* the history of shutdown calls.
C3_LateTriggerIsNoOp ==
    [][(Has(effects, "shutdown:begin") /\ op'.name \in ShutdownTriggers)
          => /\ ~escaped'
             /\ isRunning' = isRunning
             /\ isInitialized' = isInitialized
             /\ isInputGrabbed' = isInputGrabbed
             /\ listeners' = listeners
             /\ timers' = timers
             /\ exited' = exited
             /\ effects' = effects]_vars

C3_Witness ==
    /\ ArrivedAfterShutdown
    /\ op.name \in FatalFaults
    /\ timers > 0

\* C4: grabInput(false) is never called while capture is not held, and when
\* the process has exited after having been started, capture has been released
\* exactly once, before the exit.
C4_CaptureReleasedOnceBeforeExit ==
    /\ Count(effects, "release") <= Count(effects, "grab")
    /\ (exited /\ Has(effects, "grab"))
          => /\ Count(effects, "release") = 1
             /\ Before(effects, "release", "exit")

C4_Witness ==
    /\ exited
    /\ op.name = "timer"
    /\ Count(effects, "release") = 1

\* C10: in the history of every run, app:stop is published before input
\* capture is released, capture is released before the bus is reset, and once
\* the shutdown sequence has begun the process exits only after the bus reset.
C10_ShutdownStepsInOrder ==
    /\ Before(effects, "app:stop", "release")
    /\ Before(effects, "release", "reset")
    /\ Has(effects, "shutdown:begin") => Before(effects, "reset", "exit")

EmitStep == op.name = "emitTyped"

Logged(what, k) == \E i \in 1..Len(trace) : trace[i].op = what /\ trace[i].kind = k

\* C5: when a listener of the fan-out throws, every listener registered after
\* it for the same kind is still called by that emitTyped.
C5_ListenersAfterThrowerInvoked ==
    EmitStep =>
        \A i \in 1..Len(op.pre) : op.pre[i].id \in Throwing =>
            \A j \in (i + 1)..Len(op.pre) :
                Len(Calls) >= j /\ Calls[j].id = op.pre[j].id

\* C6: emitTyped lets no exception escape, and when a listener it called has
\* thrown, the bus logger has received logError for the kind.
C6_EmitTypedNeverThrows ==
    EmitStep =>
        /\ ~escaped
        /\ (\E i \in 1..Len(trace) : trace[i].op = "call" /\ trace[i].id \in Throwing)
              => Logged("logError", op.kind)

C6_Witness ==
    /\ EmitStep
    /\ \E i \in 1..Len(Calls) : Calls[i].id \in Throwing

C8_ReturnsWhetherListenersExisted ==
    EmitStep => (ret <=> Len(op.pre) > 0)

\* C9: emitTyped of a kind without registrations calls nothing, reports no
\* error, lets no exception escape and leaves the registrations as they were,
\* also on a bus that cleanup() has emptied.
C9_EmitWithoutListenersIsNoOp ==
    [][(op'.name = "emitTyped" /\ listeners[op'.kind] = <<>>)
          => /\ ~escaped'
             /\ ~ret'
             /\ listeners' = listeners
             /\ hooks' = hooks
             /\ \A i \in 1..Len(trace') : trace'[i].op \notin {"call", "logError"}]_vars

C9_Witness ==
    /\ EmitStep
    /\ op.pre = <<>>
    /\ ~hooks
    /\ ~ret /\ ~escaped

----------------------------------------------------------------------------
(* Properties of the lifecycle *)

FirstIdx(seq, x) ==
    IF Has(seq, x)
    THEN CHOOSE i \in 1..Len(seq) : seq[i] = x /\ \A j \in 1..(i - 1) : seq[j] # x
    ELSE 0

NoRegistrations == \A k \in Kinds : listeners[k] = <<>>

\* the shutdown sequence was entered from a fault handler, not from
\* handleExit, which TerminalManager.handleExit always precedes
ShutdownByFault ==
    /\ Has(effects, "shutdown:begin")
    /\ FirstIdx(effects, "tm:shutdown") > FirstIdx(effects, "shutdown:begin")

ShutdownByUser ==
    /\ Has(effects, "shutdown:begin")
    /\ FirstIdx(effects, "tm:shutdown") < FirstIdx(effects, "shutdown:begin")

\* C11: when the process has exited, input capture is not held and the bus
\* has no registrations.
C11_ExitOnlyAfterReleaseAndReset ==
    exited => (~isInputGrabbed /\ NoRegistrations)

\* C12: the process exits only after start() has run: a shutdown trigger
\* received before it does not terminate the process.
C12_NoExitBeforeStart ==
    exited => isInitialized

\* C14: after the handler of an uncaught exception or unhandled rejection has
\* run, the error has been rendered and the shutdown sequence has run,
\* whatever the lifecycle state was.
C14_FatalFaultAlwaysShutsDown ==
    op.name \in FatalFaults =>
        /\ \E i \in 1..Len(trace) : trace[i].op = "render" /\ trace[i].id = "error"
        /\ Has(effects, "shutdown:end")

\* C15: the exit status is non-zero when the shutdown was started by a fatal
\* fault and zero when it was started by a user exit.
C15_ExitStatusTellsThePath ==
    exited =>
        /\ ShutdownByFault => exitCode # 0
        /\ ShutdownByUser => exitCode = 0

\* C13: isRunning becomes true only in a start() that publishes app:start,
\* and becomes false only in the handler of an exit trigger or of a fatal
\* fault; keys, resizes, app:error, subscriptions and the timer leave it alone.
C13_LifecycleChangesOnlyByStartAndTriggers ==
    [][(isRunning' # isRunning)
          => IF isRunning'
             THEN op'.name = "start" /\ op'.kind = "app:start"
             ELSE op'.name \in ShutdownTriggers]_vars

C13_Witness ==
    /\ isRunning
    /\ op.kind = "terminal:key"
    /\ \E i \in 1..Len(trace) :
          trace[i].op = "call" /\ trace[i].id = "App.handleTerminalKey"

ThrowerCalledOn(k) ==
    \E i \in 1..Len(trace) :
        trace[i].op = "call" /\ trace[i].id \in Throwing /\ trace[i].kind = k

\* C16: when a listener of app:stop has thrown during the shutdown sequence,
\* the sequence has still released input capture, reset the bus and scheduled
\* the process exit.
C16_ShutdownSurvivesThrowingStopListener ==
    ThrowerCalledOn("app:stop") =>
        /\ ~escaped
        /\ ~isInputGrabbed /\ Count(effects, "release") = 1
        /\ NoRegistrations /\ Count(effects, "reset") = 1
        /\ timers > 0
        /\ Has(effects, "shutdown:end")

C16_Witness ==
    /\ ThrowerCalledOn("app:stop")
    /\ op.name \in ShutdownTriggers
    /\ Has(effects, "shutdown:end")

\* C17: once the shutdown sequence has begun the process exits, whatever
\* arrives during the grace delay, provided a timer that is due is run.
C17_ShutdownLeadsToExit ==
    Has(effects, "shutdown:begin") ~> exited

C17_Witness ==
    /\ exited
    /\ Has(effects, "shutdown:end")
    /\ exitCode = 0

\* C18: an app:error published while the orchestrator is running is rendered
\* and leaves it running: no shutdown call is made, no exit is scheduled and
\* the registrations stay.
C18_AppErrorKeepsRunning ==
    [][(isRunning /\ op'.kind = "app:error")
          => /\ isRunning'
             /\ \E i \in 1..Len(trace') :
                   trace'[i].op = "render" /\ trace'[i].id = "error"
             /\ effects' = effects
             /\ timers' = timers
             /\ isInputGrabbed' = isInputGrabbed
             /\ listeners' = listeners
             /\ ~exited']_vars

C18_Witness ==
    /\ isRunning
    /\ op.kind = "app:error"
    /\ \E i \in 1..Len(trace) :
          trace[i].op = "call" /\ trace[i].id = "App.handleAppError"

----------------------------------------------------------------------------
(* Properties of once and off *)

LiveRids == UNION {{listeners[k][i].rid : i \in 1..Len(listeners[k])} : k \in Kinds}

CallsThrough(r) ==
    {i \in 1..Len(trace) : trace[i].op = "call" /\ trace[i].rid = r}

Registered(list, id) == {i \in 1..Len(list) : list[i].id = id}

\* C19: a registration made with onceTyped is called at most once: within a
\* step, nested emits of the same kind included, its wrapper makes one call,
\* and a wrapper that has made its call is no longer registered, so that no
\* later emitTyped finds it.
C19_OnceListenerAtMostOnce ==
    \A i \in 1..Len(trace) :
        (trace[i].op = "call" /\ trace[i].rid > 0) =>
            /\ Cardinality(CallsThrough(trace[i].rid)) = 1
            /\ trace[i].rid \notin LiveRids

C19_Witness ==
    /\ EmitStep
    /\ \E i \in 1..Len(trace) :
          trace[i].op = "call" /\ trace[i].rid > 0 /\ trace[i].id \in Reentrant
    /\ \E i \in 1..Len(trace) : trace[i].op = "call" /\ trace[i].n = 1

\* C20: emitTyped(k) calls only listeners registered for k when it is called,
\* and offTyped(k, l) of the only registration of l for k leaves l
\* unregistered for k; so from that offTyped on no emitTyped(k) calls l until
\* l is registered again.
C20_RemovedListenerNotInvoked ==
    [][/\ op'.name = "emitTyped" =>
             \A i \in 1..Len(trace') :
                 trace'[i].op = "call" =>
                     Registered(listeners[op'.kind], trace'[i].id) # {}
       /\ (/\ op'.name = "offTyped"
           /\ Cardinality(Registered(listeners[op'.kind], op'.id)) = 1)
             => Registered(listeners'[op'.kind], op'.id) = {}]_vars

C20_Witness ==
    /\ op.name = "offTyped"
    /\ Cardinality(Registered(op.pre, op.id)) = 1
    /\ Len(op.pre) = 2
    /\ Registered(listeners[op.kind], op.id) = {}
    /\ Len(listeners[op.kind]) = 1

\* C21: offTyped(k, l) removes the registration of l for k that was added
\* last, keeps every other registration of k in its place and leaves the
\* other kinds alone; when l has no registration for k the table is unchanged;
\* in both cases nothing is thrown.
C21_OffRemovesMostRecentOnly ==
    [][op'.name = "offTyped" =>
          LET k == op'.kind
              m == Registered(listeners[k], op'.id)
          IN /\ ~escaped'
             /\ \A j \in Kinds \ {k} : listeners'[j] = listeners[j]
             /\ IF m = {}
                THEN listeners'[k] = listeners[k]
                ELSE \E i \in m :
                        /\ \A j \in m : j <= i
                        /\ listeners'[k] = RemoveAt(listeners[k], i)]_vars

C21_Witness ==
    /\ op.name = "offTyped"
    /\ Len(op.pre) = 2
    /\ op.pre[1].id = op.id /\ op.pre[2].id = op.id
    /\ op.pre[1] # op.pre[2]
    /\ listeners[op.kind] = <<op.pre[1]>>

OnlyOn(list) == \A i \in 1..Len(list) : ~list[i].once

CallsOf(id) == {i \in 1..Len(Calls) : Calls[i].id = id}

\* C22: a callback registered n times for a kind with onTyped, and alone for
\* that kind, is called n times by one emitTyped of the kind, and an offTyped of a registered
\* callback takes away one of its registrations.
C22_SameCallbackIndependentRegistrations ==
    /\ (EmitStep /\ OnlyOn(op.pre)) =>
           \A id \in TestListeners :
               Cardinality(Registered(op.pre, id)) = Len(op.pre) =>
                   Cardinality(CallsOf(id)) = Len(op.pre)
    /\ (op.name = "offTyped" /\ Registered(op.pre, op.id) # {}) =>
           Cardinality(Registered(listeners[op.kind], op.id))
               = Cardinality(Registered(op.pre, op.id)) - 1

CallsAt(d) == LET AtDepth(e) == e.op = "call" /\ e.n = d IN SelectSeq(trace, AtDepth)

ReentrantIn(seq) == {i \in 1..Len(seq) : seq[i].id \in Reentrant}

\* C23: when a listener publishes its own kind again from inside the fan-out,
\* the outer emitTyped still calls every registration of its snapshot once and
\* in registration order, and every nested emitTyped calls every registration
\* it found, in order.
C23_ReentrantEmitKeepsFanOut ==
    (EmitStep /\ ReentrantIn(Calls) # {}) =>
        /\ Len(Calls) = Len(op.pre)
        /\ \A i \in 1..Len(op.pre) : Calls[i].id = op.pre[i].id
        /\ \A d \in 1..MaxDepth :
              /\ Len(CallsAt(d)) >= Len(listeners[op.kind])
                                        * Cardinality(ReentrantIn(CallsAt(d - 1)))
              /\ \A i \in 1..Len(CallsAt(d)) : \E j \in 1..Len(op.pre) :
                    CallsAt(d)[i].id = op.pre[j].id

----------------------------------------------------------------------------
(* Properties of the registration table *)

BusState == <<listeners, hooks, warned, maxListeners, enableLogging>>

\* C24: cleanup() lets no exception escape and leaves no registration for
\* any kind, the bus's own included; a cleanup() that follows a cleanup()
\* leaves the bus as it found it.
C24_CleanupEmptiesAndIsIdempotent ==
    [][op'.name = "cleanup" =>
          /\ ~escaped'
          /\ \A k \in Kinds : listeners'[k] = <<>>
          /\ EventNames(Cur)' = {}
          /\ op.name = "cleanup" => BusState' = BusState]_vars

C24_Witness ==
    /\ op.name = "cleanup"
    /\ ~hooks
    /\ \A i \in 1..Len(trace) : trace[i].op # "logListenerRemove"

\* registrations the step has made for k, and registrations it has ended: by
\* an offTyped of a registered listener, by the call of a once listener, by
\* a cleanup
Added(k) ==
    IF op'.name \in {"onTyped", "onceTyped"} /\ op'.kind = k THEN 1 ELSE 0

Ended(k) ==
    CASE op'.name = "offTyped" /\ op'.kind = k ->
             IF Registered(listeners[k], op'.id) # {} THEN 1 ELSE 0
      [] op'.name = "emitTyped" ->
             Cardinality({i \in 1..Len(trace') :
                 trace'[i].op = "call" /\ trace'[i].rid > 0 /\ trace'[i].kind = k})
      [] op'.name = "cleanup" -> Len(listeners[k])
      [] OTHER -> 0

StatsLogged == {i \in 1..Len(trace) : trace[i].kind = "eventbus:stats"}

\* C25: a new bus has no registration for the kinds of the application, and
\* every operation changes the number of entries listenerCount(k) counts by
\* the registrations it makes less those it ends; hasListeners(k) answers whether that count is positive, and
\* getListenersInfo() names the kinds whose count is positive, each with its
\* count, and beside them only the bus's own three registrations.
C25_CountsReflectLiveRegistrations ==
    /\ \A k \in Kinds : ListenerCount(Cur, k) = 0
    /\ [][/\ \A k \in Kinds :
                Len(listeners'[k]) = Len(listeners[k]) + Added(k) - Ended(k)
          /\ op'.name = "hasListeners" =>
                /\ ret' = (Len(listeners[op'.kind]) > 0)
                /\ BusState' = BusState
          /\ op'.name = "getListenersInfo" =>
                /\ BusState' = BusState
                /\ StatsLogged' # {}
                /\ \A i \in StatsLogged' :
                      LET info == trace'[i].args[1] IN
                      /\ \A k \in Kinds :
                            /\ k \in DOMAIN info <=> Len(listeners[k]) > 0
                            /\ k \in DOMAIN info => info[k] = Len(listeners[k])
                      /\ \A e \in DOMAIN info \ Kinds :
                            e \in OwnKinds /\ hooks /\ info[e] = 1]_vars

C25_Witness ==
    /\ op.name = "getListenersInfo"
    /\ \E i \in StatsLogged : \E k \in Kinds :
          /\ k \in DOMAIN trace[i].args[1]
          /\ trace[i].args[1][k] = 2
          /\ \E j \in 1..2 : listeners[k][j].once

\* C26: every onTyped and onceTyped call appends its registration to the
\* kind and lets no exception escape, also when the kind then has more
\* registrations than the ceiling.
C26_CeilingNeverRejects ==
    [][op'.name \in {"onTyped", "onceTyped"} =>
          LET k == op'.kind
              n == Len(listeners[k])
          IN /\ ~escaped'
             /\ Len(listeners'[k]) = n + 1
             /\ SubSeq(listeners'[k], 1, n) = listeners[k]
             /\ listeners'[k][n + 1].id = op'.id
             /\ listeners'[k][n + 1].once = (op'.name = "onceTyped")]_vars

C26_Witness ==
    /\ op.name = "onTyped"
    /\ Len(listeners[op.kind]) > maxListeners
    /\ warned[op.kind]
    /\ \E i \in 1..Len(trace) : trace[i].op = "emitWarning"

----------------------------------------------------------------------------
(* Properties of the stopped application *)

InputKinds == {"terminal:key", "terminal:resize", "terminal:exit"}

\* C27: an input event that arrives after the shutdown sequence has ended
\* renders nothing and calls no handler of DTraderCrypto or TerminalManager.
C27_NoReactionAfterShutdown ==
    (ArrivedAfterShutdown /\ op.kind \in InputKinds) =>
        \A i \in 1..Len(trace) :
            /\ trace[i].op # "render"
            /\ trace[i].op = "call" => trace[i].id \in TestListeners

C27_Witness ==
    /\ ArrivedAfterShutdown
    /\ op.name = "resize"
    /\ development
    /\ timers > 0 /\ ~exited

\* what a callback leaves behind: the program state, the calls it made, the
\* value it returned and whether it threw
Outcome(s) ==
    <<s.listeners, s.hooks, s.warned, s.maxListeners, s.sessionInfo, s.enableLogging,
      s.development, s.isRunning, s.startTime, s.isInitialized, s.isInputGrabbed,
      s.keyHandlers, s.timers, s.exited, s.exitCode, s.effects, s.trace, s.ret, s.exc>>

Observed ==
    <<listeners, hooks, warned, maxListeners, sessionInfo, enableLogging,
      development, isRunning, startTime, isInitialized, isInputGrabbed,
      keyHandlers, timers, exited, exitCode, effects, trace, ret, escaped>>

\* C28: while the application runs, SIGINT, SIGTERM and the exit keys CTRL_X
\* and CTRL_C each do what one publication of terminal:exit does, no more and
\* no less: the same calls, the same shutdown history, the same final state.
C28_SignalEqualsExitKey ==
    [][(isRunning /\ op'.name \in ExitTriggers)
          => Observed' = Outcome(EmitTyped(Cur, "terminal:exit", <<>>))]_vars

C28_Witness ==
    /\ op.name = "CTRL_C"
    /\ Has(effects, "shutdown:end")
    /\ \E i \in 1..Len(trace) : trace[i].kind = "eventbus:cleanup"

\* C29: once the shutdown sequence has begun, isRunning is false in every
\* later state, whatever is called afterwards.
C29_StoppedIsTerminal ==
    Has(effects, "shutdown:begin") => ~isRunning

C29_Witness ==
    /\ op.name = "start" /\ op.kind = "app:start"
    /\ ArrivedAfterShutdown
    /\ ~isRunning /\ ~exited

\* C30: the session descriptor holds the values given at construction in
\* every state, and no step changes what getSessionInfo() returns.
C30_SessionInfoFixed ==
    /\ GetSessionInfo(Cur).id \in SessionIds
    /\ GetSessionInfo(Cur).startTime = "constructed"
    /\ [][GetSessionInfo(Cur)' = GetSessionInfo(Cur)]_vars

C30_Witness ==
    /\ exited /\ op.name = "timer"
    /\ Has(effects, "shutdown:end")
    /\ sessionInfo.id \in SessionIds
    /\ sessionInfo.startTime = "constructed"

----------------------------------------------------------------------------
(* Properties of the presentation surface and of the reports of the bus *)

RanShutdownNow == \E i \in 1..Len(trace) : trace[i].kind = "eventbus:cleanup"

\* C31: when an exit trigger has run the shutdown sequence, the shutdown of
\* the TerminalManager has run once and one process-exit timer has been set.
C31_TerminalShutdownOnce ==
    (op.name \in ExitTriggers /\ RanShutdownNow) =>
        /\ Count(effects, "tm:shutdown") = 1
        /\ Count(effects, "schedule") = 1

\* C32: whenever DTraderCrypto is running the TerminalManager is initialised,
\* and a shutdown trigger that has run the shutdown sequence has set an exit
\* timer and has not exited the process.
C32_RunningImpliesInitialized ==
    /\ isRunning => isInitialized
    /\ (op.name \in ShutdownTriggers /\ RanShutdownNow) =>
          ~exited /\ timers > 0 /\ ~Has(effects, "exit")

C32_Witness ==
    /\ op.name \in ShutdownTriggers
    /\ RanShutdownNow
    /\ isInitialized /\ ~exited /\ timers > 0

Reports(what) == {i \in 1..Len(trace) : trace[i].op = what}

\* C33: the count reported with a registration change is the number of
\* registrations the kind has after the change: after an onTyped or onceTyped
\* the count of the one logListenerAdd, after an offTyped the count of the
\* one logListenerRemove; no reported count is negative.
C33_ReportedCountIsLiveCount ==
    /\ op.name \in {"onTyped", "onceTyped"} =>
           \A i \in Reports("logListenerAdd") : trace[i].n = Len(listeners[op.kind])
    /\ op.name = "offTyped" =>
           \A i \in Reports("logListenerRemove") : trace[i].n = Len(listeners[op.kind])
    /\ \A i \in Reports("logListenerAdd") \cup Reports("logListenerRemove") :
           trace[i].n >= 0

Held == Count(effects, "grab") - Count(effects, "release")

\* C34: input capture is acquired at most once in a run, one key handler at
\* most is installed, and isInputGrabbed tells whether the acquisitions
\* outnumber the releases, which they do by one at most.
C34_CaptureFlagCountsGrabs ==
    /\ Count(effects, "grab") <= 1
    /\ keyHandlers <= 1
    /\ Held \in {0, 1}
    /\ isInputGrabbed <=> Held = 1

C34_Witness ==
    /\ op.name = "start" /\ op.kind = "app:start"
    /\ isInputGrabbed
    /\ Count(effects, "grab") = 1
    /\ \A i \in 1..Len(trace) : trace[i].op # "grabInput"
    /\ \E i \in 1..Len(trace) :
          trace[i].op = "call" /\ trace[i].id = "TM.handleAppStart"

\* C35: cleanup() removes the bus's own three listeners with the others, and
\* a registration made on a bus without them is appended and is reported
\* neither to the bus logger nor through emit.
C35_CleanupRemovesOwnHooks ==
    [][/\ op'.name = "cleanup" => ~hooks' /\ ~HasListeners(Cur, "newListener")'
       /\ (~hooks /\ op'.name \in {"onTyped", "onceTyped"}) =>
             /\ Len(listeners'[op'.kind]) = Len(listeners[op'.kind]) + 1
             /\ \A i \in 1..Len(trace') :
                   trace'[i].op \notin {"logListenerAdd", "logEvent"}]_vars

C35_Witness ==
    /\ op.name = "onceTyped"
    /\ ~hooks
    /\ Len(listeners[op.kind]) = 2 /\ Len(op.pre) = 1
    /\ Reports("logListenerAdd") = {}

\* the registration of the snapshot that the first call of an unsubscribing
\* listener takes out of the table: the last okA, when it comes after that
\* listener and no subscribing listener has added another before
Unsubscribed ==
    {j \in 1..Len(op.pre) :
        /\ op.pre[j].id = "okA"
        /\ \A q \in (j + 1)..Len(op.pre) : op.pre[q].id # "okA"
        /\ \A q \in 1..Len(op.pre) : op.pre[q].id \notin Subscribing
        /\ \E i \in 1..(j - 1) :
              op.pre[i].id \in Unsubscribing /\ i <= Len(Calls)}

\* C36: the calls of an emitTyped follow the registrations the kind had when
\* it was called, so a registration that a listener adds during the call is
\* not called by it, and a registration that a listener removes during the
\* call before its turn is still called by it.
C36_ChangesInsideAffectLaterPublishes ==
    EmitStep =>
        /\ Len(Calls) <= Len(op.pre)
        /\ \A i \in 1..Len(Calls) : Calls[i].id = op.pre[i].id
        /\ \A j \in Unsubscribed : j <= Len(Calls)

\* the operation o of a client, applied to the bus in state s
Replay(s, o) ==
    CASE o.name = "emitTyped" -> EmitTyped(s, o.kind, o.args)
      [] o.name = "onTyped"   -> OnTyped(s, o.kind, o.id)
      [] o.name = "onceTyped" -> OnceTyped(s, o.kind, o.id)
      [] o.name = "offTyped"  -> OffTyped(s, o.kind, o.id)
      [] o.name = "cleanup"   -> Cleanup(s)
      [] o.name = "hasListeners"     -> [s EXCEPT !.ret = HasListeners(s, o.kind)]
      [] o.name = "getListenersInfo" -> GetListenersInfo(s)
      [] OTHER                -> s

\* the trace without the records written by the wrapper of emit: the calls of
\* the listeners with their arguments, in order, and every other report
Unlogged(tr) ==
    SelectSeq(tr, LAMBDA e : ~(e.op = "logEvent" /\
                               e.kind \notin {"eventbus:cleanup", "eventbus:stats"}))

\* what an operation leaves behind, the records of the wrapper of emit aside
Visible(s) ==
    <<Unlogged(s.trace), s.ret, s.exc, s.listeners, s.hooks, s.warned>>

\* C37: every operation of a client has, on the bus whose enableLogging is
\* the opposite and whose state is otherwise the same, the same calls of
\* listeners in the same order with the same arguments, the same return
\* value, the same exception behaviour and the same registrations afterwards;
\* the records of emit are the only difference between the two.
C37_LoggingIsTransparent ==
    [][Visible(Replay([Cur EXCEPT !.enableLogging = ~@], op'))
         = <<Unlogged(trace'), ret', escaped', listeners', hooks', warned'>>]_vars

C37_Witness ==
    /\ EmitStep
    /\ enableLogging
    /\ ret
    /\ Len(Calls) = 2
    /\ \E i \in 1..Len(trace) : trace[i].op = "logEvent" /\ trace[i].kind = op.kind

CallsOn(tr, k) == {i \in 1..Len(tr) : tr[i].op = "call" /\ tr[i].kind = k}

\* C38: a start() whose rendering of the start message throws lets no
\* exception escape, publishes app:error with the error (DTraderCrypto's
\* handler, while registered, is called with it), publishes no app:start and
\* leaves isRunning and isInitialized as they were.
C38_FailedStartPublishesError ==
    [][(op'.name = "start" /\ op'.kind = "app:error") =>
          /\ ~escaped'
          /\ listeners["app:error"] # <<>> =>
                \E i \in CallsOn(trace', "app:error") :
                   trace'[i].id = "App.handleAppError" /\ trace'[i].args = <<"Error">>
          /\ enableLogging =>
                \E i \in 1..Len(trace') :
                   trace'[i].op = "logEvent" /\ trace'[i].kind = "app:error"
          /\ CallsOn(trace', "app:start") = {}
          /\ \A i \in 1..Len(trace') : trace'[i].kind # "app:start"
          /\ isRunning' = isRunning
          /\ isInitialized' = isInitialized
          /\ ~exited']_vars

C38_Witness ==
    /\ op.name = "start" /\ op.kind = "app:error"
    /\ ~isRunning /\ ~isInitialized
    /\ ~escaped
    /\ effects = <<>>
    /\ \E i \in CallsOn(trace, "app:error") : trace[i].id = "App.handleAppError"

====
